---- MODULE Spec2Model ----
(***************************************************************************)
(* Model of papila_classes.py: EyeData, Patient and PapilaDataset.         *)
(*                                                                         *)
(* Python's Optional[T] is modelled as a sequence of length at most one:   *)
(* None is << >> and a present value x is << x >>.  The patients dict is   *)
(* modelled as the sequence of its values in the dict's iteration order    *)
(* (insertion order; overwriting a key keeps the key's position); the key  *)
(* of an entry is the patient_id the patient was registered under.         *)
(* mean_defect (a float) is a fixed-point integer, MDScale units per dB.    *)
(***************************************************************************)
EXTENDS Integers, Sequences, FiniteSets, TLC

\* ---------------------------------------------------------------- bounds
\* ages of the patients the callers construct are 0..MaxAge
MaxAge == 1
\* mean_defect is a fixed-point number with MDScale units per dB
MDScale == 2
\* mean_defect ranges over -MDSpan dB .. +MDPos dB
MDSpan == 13
MDPos == 1
\* filter_patients is called with at most MaxKwargs keyword arguments
MaxKwargs == 2

\* ------------------------------------------------------------ value types
None == << >>
Some(x) == << x >>

Gender == {"MALE", "FEMALE"}
DiagnosisStatus == {"HEALTHY", "GLAUCOMA", "SUSPECT"}
Eye == {"OD", "OS"}
RIGHT == "OD"
LEFT == "OS"

Ages == 0..MaxAge
PatientIds == {"P001", "P002"}
Paths == {"a.png", "b.png"}
MeanDefects == (0 - MDSpan * MDScale)..(MDPos * MDScale)

\* EyeData.__init__: the fields the modelled operations read or write
EyeData(eye_type, diagnosis, mean_defect) ==
    [eye_type |-> eye_type, diagnosis |-> diagnosis,
     mean_defect |-> mean_defect, fundus_image |-> None]

\* Patient.__init__
Patient(patient_id, age, gender, right_eye, left_eye) ==
    [patient_id |-> patient_id, age |-> age, gender |-> gender,
     right_eye |-> right_eye, left_eye |-> left_eye]

\* the EyeData values callers pass around in the registry specifications
EyeInputs(side) == {EyeData(side, d, None) : d \in DiagnosisStatus}
OptEye(side) == {None} \cup {Some(e) : e \in EyeInputs(side)}

\* the patients handed to add_patient
PatientInputs ==
    {Patient(id, a, g, r, l) :
        id \in PatientIds, a \in Ages, g \in Gender,
        r \in OptEye(RIGHT), l \in OptEye(LEFT)}

\* patients:    PapilaDataset.patients, in iteration order
\* patient:     the Patient object of the Patient specification
\* eye:         the EyeData object of the EyeData specification
\* fs:          the paths for which os.path.exists holds
\* kwargs:      the keyword arguments of the filter_patients call
\* call:        the last call made, <<method, argument>>
\* ret:         the value the last call returned
\* exc:         the exception the last call raised, if any
\* size_before: len(patients) when the last call was made
VARIABLES patients, patient, eye, fs, kwargs, call, ret, exc, size_before

vars == <<patients, patient, eye, fs, kwargs, call, ret, exc, size_before>>

\* ------------------------------------------------------------ dict helpers
Keys(ps) == {ps[i].patient_id : i \in 1..Len(ps)}

IndexOf(ps, id) == CHOOSE i \in 1..Len(ps) : ps[i].patient_id = id

RemoveAt(ps, i) == SubSeq(ps, 1, i - 1) \o SubSeq(ps, i + 1, Len(ps))

\* ------------------------------------------------------ PapilaDataset ops
\* a variant that appends without looking for the key
add_patient_append(ps, p) == Append(ps, p)

\* self.patients[patient.patient_id] = patient
add_patient(ps, p) ==
    IF p.patient_id \in Keys(ps)
    THEN [ps EXCEPT ![IndexOf(ps, p.patient_id)] = p]
    ELSE Append(ps, p)

\* self.patients.get(patient_id)
get_patient(ps, id) ==
    IF id \in Keys(ps) THEN Some(ps[IndexOf(ps, id)]) ELSE None

\* a variant that reports success whether or not the key was there
remove_patient_ret_always(ps, id) == TRUE

\* the value remove_patient returns
remove_patient_ret(ps, id) == id \in Keys(ps)

\* the registry remove_patient leaves
remove_patient(ps, id) ==
    IF id \in Keys(ps) THEN RemoveAt(ps, IndexOf(ps, id)) ELSE ps

\* ------------------------------------------------------------ numbers
\* A Python number is modelled as a pair <<num, den>>: the integer n is
\* <<n, 1>>, the float a / b is <<a, b>> with b > 0, float('inf') is <<1, 0>>
\* and float('-inf') is <<-1, 0>>.
Num(n) == <<n, 1>>
PosInf == <<1, 0>>
NegInf == <<0 - 1, 0>>
IsInfinite(x) == x[2] = 0

\* x <= y on numbers
NumLeq(x, y) ==
    IF IsInfinite(x) /\ IsInfinite(y) THEN x[1] <= y[1]
    ELSE IF IsInfinite(x) THEN x[1] < 0
    ELSE IF IsInfinite(y) THEN y[1] > 0
    ELSE x[1] * y[2] <= y[1] * x[2]

NumEq(x, y) == NumLeq(x, y) /\ NumLeq(y, x)

\* Python's min(a, b) / max(a, b): the first argument wins a tie
PyMin(a, b) == IF NumLeq(a, b) THEN a ELSE b
\* a variant that keeps the last value seen
PyMaxLast(a, b) == b
PyMax(a, b) == IF NumLeq(b, a) THEN a ELSE b

\* total_age / len(self.patients)
TrueDiv(a, b) == <<a, b>>

\* sum(1 for p in self.patients.values() if p.gender == g)
RECURSIVE CountGender(_, _)
CountGender(ps, g) ==
    IF ps = << >> THEN 0
    ELSE (IF Head(ps).gender = g THEN 1 ELSE 0) + CountGender(Tail(ps), g)

\* patient.right_eye.diagnosis if patient.right_eye else None
DiagnosisOf(e) == IF e # None THEN Some(e[1].diagnosis) ELSE None

Bump(dist, bucket) == [dist EXCEPT ![bucket] = @ + 1]

\* a variant that files a one-eyed patient under the recorded eye's diagnosis
BucketStepOneEye(dist, p) ==
    LET right_diagnosis == DiagnosisOf(p.right_eye)
        left_diagnosis == DiagnosisOf(p.left_eye)
        d == IF right_diagnosis = None THEN left_diagnosis ELSE right_diagnosis
    IN  IF right_diagnosis = left_diagnosis \/ right_diagnosis = None
           \/ left_diagnosis = None
        THEN IF d = Some("HEALTHY") THEN Bump(dist, "healthy")
             ELSE IF d = Some("GLAUCOMA") THEN Bump(dist, "glaucoma")
             ELSE IF d = Some("SUSPECT") THEN Bump(dist, "suspect")
             ELSE dist
        ELSE Bump(dist, "mixed")

\* the body of the loop over the patients that updates diagnosis_distribution
BucketStep(dist, p) ==
    LET right_diagnosis == DiagnosisOf(p.right_eye)
        left_diagnosis == DiagnosisOf(p.left_eye)
    IN  IF right_diagnosis = left_diagnosis
        THEN IF right_diagnosis = Some("HEALTHY") THEN Bump(dist, "healthy")
             ELSE IF right_diagnosis = Some("GLAUCOMA") THEN Bump(dist, "glaucoma")
             ELSE IF right_diagnosis = Some("SUSPECT") THEN Bump(dist, "suspect")
             ELSE dist
        ELSE Bump(dist, "mixed")

\* the for loop of get_statistics, from patient i on; acc is
\* [total_age, min, max, dist]
RECURSIVE StatsLoop(_, _, _)
StatsLoop(ps, i, acc) ==
    IF i > Len(ps) THEN acc
    ELSE LET p == ps[i]
         IN  StatsLoop(ps, i + 1,
                 [total_age |-> acc.total_age + p.age,
                  min |-> PyMin(acc.min, Num(p.age)),
                  max |-> PyMax(acc.max, Num(p.age)),
                  dist |-> BucketStep(acc.dist, p)])

get_statistics(ps) ==
    LET acc == StatsLoop(ps, 1,
                   [total_age |-> 0, min |-> PosInf, max |-> NegInf,
                    dist |-> [healthy |-> 0, glaucoma |-> 0,
                              suspect |-> 0, mixed |-> 0]])
    IN  [total_patients |-> Len(ps),
         gender_distribution |->
             [male |-> CountGender(ps, "MALE"),
              female |-> CountGender(ps, "FEMALE")],
         diagnosis_distribution |-> acc.dist,
         age_stats |->
             [min |-> acc.min,
              max |-> acc.max,
              avg |-> IF ps # << >> THEN TrueDiv(acc.total_age, Len(ps))
                      ELSE Num(0)]]

\* ------------------------------------------------- registry specification
Init ==
    /\ patients = << >>
    /\ patient = None
    /\ eye = None
    /\ fs = {}
    /\ kwargs = << >>
    /\ call = <<"__init__">>
    /\ ret = None
    /\ exc = None
    /\ size_before = 0

AddPatient ==
    \E p \in PatientInputs :
        /\ patients' = add_patient(patients, p)
        /\ call' = <<"add_patient", p>>
        /\ ret' = None
        /\ size_before' = Len(patients)
        /\ UNCHANGED <<patient, eye, fs, kwargs, exc>>

GetPatient ==
    \E id \in PatientIds :
        /\ call' = <<"get_patient", id>>
        /\ ret' = get_patient(patients, id)
        /\ size_before' = Len(patients)
        /\ UNCHANGED <<patients, patient, eye, fs, kwargs, exc>>

RemovePatient ==
    \E id \in PatientIds :
        /\ patients' = remove_patient(patients, id)
        /\ call' = <<"remove_patient", id>>
        /\ ret' = remove_patient_ret(patients, id)
        /\ size_before' = Len(patients)
        /\ UNCHANGED <<patient, eye, fs, kwargs, exc>>

GetStatistics ==
    /\ call' = <<"get_statistics">>
    /\ ret' = get_statistics(patients)
    /\ size_before' = Len(patients)
    /\ UNCHANGED <<patients, patient, eye, fs, kwargs, exc>>

Next == AddPatient \/ GetPatient \/ RemovePatient \/ GetStatistics

Spec == Init /\ [][Next]_vars

\* ------------------------------------------------------- registry claims
NoBuckets == [healthy |-> 0, glaucoma |-> 0, suspect |-> 0, mixed |-> 0]

\* C1: on a dataset that holds no patients get_statistics returns
\* total_patients = 0, male = female = 0, the four diagnosis buckets 0,
\* age min and age max absent (None, not an infinity) and age mean 0.
C1_EmptyStatistics ==
    (call[1] = "get_statistics" /\ patients = << >>) =>
        /\ ret.total_patients = 0
        /\ ret.gender_distribution = [male |-> 0, female |-> 0]
        /\ ret.diagnosis_distribution = NoBuckets
        /\ NumEq(ret.age_stats.avg, Num(0))
        /\ ret.age_stats.min = None
        /\ ret.age_stats.max = None

\* C3: remove_patient(id) returns false and leaves the registry unchanged
\* when id is not registered; it returns true when id is registered, and
\* then id is no longer retrievable while every other patient is retrievable
\* unchanged; an id that is not registered stays absent (get_patient returns
\* None for it) over every step that is not an add_patient of that id.
C3_RemovePatient ==
    [][\A id \in PatientIds :
        /\ (call' = <<"remove_patient", id>> /\ id \notin Keys(patients)) =>
              (ret' = FALSE /\ patients' = patients)
        /\ (call' = <<"remove_patient", id>> /\ id \in Keys(patients)) =>
              /\ ret' = TRUE
              /\ get_patient(patients', id) = None
              /\ \A other \in PatientIds \ {id} :
                    get_patient(patients', other) = get_patient(patients, other)
        /\ (id \notin Keys(patients)
              /\ ~(call'[1] = "add_patient" /\ call'[2].patient_id = id)) =>
              /\ id \notin Keys(patients')
              /\ (call' = <<"get_patient", id>> => ret' = None)
      ]_vars

\* C3 witness: a registered patient was removed while another stays registered
C3_Witness ==
    /\ call[1] = "remove_patient"
    /\ ret = TRUE
    /\ size_before = 2
    /\ Len(patients) = 1
    /\ patients[1].patient_id # call[2]

\* C4: add_patient(p2) with p2's id already registered makes get_patient(id)
\* return exactly p2, leaves the number of registered patients unchanged and
\* leaves the patients registered under other ids unchanged.
C4_AddPatientUpsert ==
    [][call'[1] = "add_patient" =>
        LET p2 == call'[2] IN
        /\ get_patient(patients', p2.patient_id) = Some(p2)
        /\ Cardinality({i \in 1..Len(patients') :
                           patients'[i].patient_id = p2.patient_id}) = 1
        /\ (p2.patient_id \in Keys(patients) =>
               Len(patients') = Len(patients))
        /\ \A other \in PatientIds \ {p2.patient_id} :
               get_patient(patients', other) = get_patient(patients, other)
      ]_vars

\* C4 witness: a patient with no eye data replaced a registered patient of
\* the same id while a second patient is registered
C4_Witness ==
    /\ call[1] = "add_patient"
    /\ size_before = 2
    /\ Len(patients) = 2
    /\ call[2].right_eye = None
    /\ call[2].left_eye = None
    /\ get_patient(patients, call[2].patient_id) = Some(call[2])

\* the patients of ps that satisfy Test
CountIf(ps, Test(_)) == Cardinality({i \in 1..Len(ps) : Test(ps[i])})

BothEyes(p, d) ==
    /\ p.right_eye # None /\ p.left_eye # None
    /\ p.right_eye[1].diagnosis = d /\ p.left_eye[1].diagnosis = d

EyesDiffer(p) ==
    \/ (p.right_eye = None) # (p.left_eye = None)
    \/ /\ p.right_eye # None /\ p.left_eye # None
       /\ p.right_eye[1].diagnosis # p.left_eye[1].diagnosis

NoEyes(p) == p.right_eye = None /\ p.left_eye = None

\* C8: in get_statistics a patient whose two eyes are present with equal
\* diagnoses counts in that diagnosis's bucket, a patient whose eyes differ
\* or who has exactly one eye recorded counts in mixed, and a patient with no
\* eye recorded counts in no bucket.
C8_DiagnosisBuckets ==
    call[1] = "get_statistics" =>
        LET dist == ret.diagnosis_distribution IN
        /\ dist.healthy = CountIf(patients, LAMBDA p : BothEyes(p, "HEALTHY"))
        /\ dist.glaucoma = CountIf(patients, LAMBDA p : BothEyes(p, "GLAUCOMA"))
        /\ dist.suspect = CountIf(patients, LAMBDA p : BothEyes(p, "SUSPECT"))
        /\ dist.mixed = CountIf(patients, LAMBDA p : EyesDiffer(p))

\* C8 witness: a patient with right eye GLAUCOMA and left eye SUSPECT and a
\* patient with only one eye recorded give mixed = 2 and nothing else
C8_Witness ==
    /\ call[1] = "get_statistics"
    /\ Len(patients) = 2
    /\ DiagnosisOf(patients[1].right_eye) = Some("GLAUCOMA")
    /\ DiagnosisOf(patients[1].left_eye) = Some("SUSPECT")
    /\ patients[2].right_eye = None
    /\ patients[2].left_eye # None
    /\ ret.diagnosis_distribution = [NoBuckets EXCEPT !.mixed = 2]

AgesOf(ps) == {ps[i].age : i \in 1..Len(ps)}

\* C10: get_statistics leaves the registry unchanged and agrees with it:
\* total_patients is the number of distinct registered ids, male + female is
\* total_patients, the four buckets add up to total_patients minus the
\* patients with no eye recorded, and on a non-empty registry min and max are
\* the smallest and largest registered age with min <= avg <= max.
C10_StatisticsConsistent ==
    [][call'[1] = "get_statistics" =>
        LET stats == ret'
            dist == stats.diagnosis_distribution
        IN
        /\ patients' = patients
        /\ stats.total_patients = Cardinality(Keys(patients))
        /\ stats.gender_distribution.male + stats.gender_distribution.female
               = stats.total_patients
        /\ dist.healthy + dist.glaucoma + dist.suspect + dist.mixed
               = stats.total_patients - CountIf(patients, LAMBDA p : NoEyes(p))
        /\ patients # << >> =>
               /\ stats.age_stats.min[2] = 1
               /\ stats.age_stats.max[2] = 1
               /\ stats.age_stats.min[1] \in AgesOf(patients)
               /\ stats.age_stats.max[1] \in AgesOf(patients)
               /\ \A a \in AgesOf(patients) :
                      stats.age_stats.min[1] <= a /\ a <= stats.age_stats.max[1]
               /\ NumLeq(stats.age_stats.min, stats.age_stats.avg)
               /\ NumLeq(stats.age_stats.avg, stats.age_stats.max)
      ]_vars

\* C10 witness: statistics of two patients of different ages, the older
\* first, one of them with no eye recorded
C10_Witness ==
    /\ call[1] = "get_statistics"
    /\ Len(patients) = 2
    /\ patients[1].age > patients[2].age
    /\ NoEyes(patients[2])
    /\ ret.total_patients = 2
    /\ ret.age_stats.min = Num(patients[2].age)
    /\ ret.age_stats.max = Num(patients[1].age)

\* ------------------------------------------------------------ Patient ops
\* every EyeData a caller can construct without clinical measurements
AnyEye == {EyeData(t, d, None) : t \in Eye, d \in DiagnosisStatus}
AnyOptEye == {None} \cup {Some(e) : e \in AnyEye}

\* the Patient set_eye_data leaves
set_eye_data(p, eye_data) ==
    IF eye_data.eye_type = RIGHT
    THEN [p EXCEPT !.right_eye = Some(eye_data)]
    ELSE IF eye_data.eye_type = LEFT
    THEN [p EXCEPT !.left_eye = Some(eye_data)]
    ELSE p

\* the exception set_eye_data raises, if any
set_eye_data_exc(eye_data) ==
    IF eye_data.eye_type = RIGHT \/ eye_data.eye_type = LEFT
    THEN None
    ELSE Some("ValueError")

\* a variant that looks at the right eye only
get_patient_diagnosis_right_only(p) ==
    IF p.right_eye = None /\ p.left_eye = None THEN "Sin datos"
    ELSE IF p.right_eye # None /\ p.right_eye[1].diagnosis = "GLAUCOMA"
    THEN "Glaucoma"
    ELSE IF p.right_eye # None /\ p.right_eye[1].diagnosis = "SUSPECT"
    THEN "Sospechoso"
    ELSE "Sano"

get_patient_diagnosis(p) ==
    IF p.right_eye = None /\ p.left_eye = None THEN "Sin datos"
    ELSE IF \/ (p.right_eye # None /\ p.right_eye[1].diagnosis = "GLAUCOMA")
            \/ (p.left_eye # None /\ p.left_eye[1].diagnosis = "GLAUCOMA")
    THEN "Glaucoma"
    ELSE IF \/ (p.right_eye # None /\ p.right_eye[1].diagnosis = "SUSPECT")
            \/ (p.left_eye # None /\ p.left_eye[1].diagnosis = "SUSPECT")
    THEN "Sospechoso"
    ELSE "Sano"

\* ------------------------------------------------- Patient specification
\* Patient(...) with any optional right_eye and left_eye arguments
InitPatient ==
    /\ patient \in {Patient("P001", a, g, r, l) :
                       a \in Ages, g \in Gender,
                       r \in AnyOptEye, l \in AnyOptEye}
    /\ patients = << >>
    /\ eye = None
    /\ fs = {}
    /\ kwargs = << >>
    /\ call = <<"__init__">>
    /\ ret = None
    /\ exc = None
    /\ size_before = 0

SetEyeData ==
    \E eye_data \in AnyEye :
        /\ patient' = set_eye_data(patient, eye_data)
        /\ call' = <<"set_eye_data", eye_data>>
        /\ ret' = None
        /\ exc' = set_eye_data_exc(eye_data)
        /\ UNCHANGED <<patients, eye, fs, kwargs, size_before>>

GetPatientDiagnosis ==
    /\ call' = <<"get_patient_diagnosis">>
    /\ ret' = get_patient_diagnosis(patient)
    /\ exc' = None
    /\ UNCHANGED <<patients, patient, eye, fs, kwargs, size_before>>

NextPatient == SetEyeData \/ GetPatientDiagnosis

SpecPatient == InitPatient /\ [][NextPatient]_vars

\* -------------------------------------------------------- Patient claims
\* C2: in every reachable state of a Patient the right slot is absent or
\* holds an EyeData of eye_type RIGHT and the left slot is absent or holds
\* an EyeData of eye_type LEFT.
C2_EyeSlotsTyped ==
    /\ patient.right_eye # None => patient.right_eye[1].eye_type = RIGHT
    /\ patient.left_eye # None => patient.left_eye[1].eye_type = LEFT

PresentDiagnoses(p) ==
    {e[1].diagnosis : e \in {p.right_eye, p.left_eye} \ {None}}

\* C5: get_patient_diagnosis returns "Sin datos" when both eyes are absent,
\* otherwise "Glaucoma" when a present eye is GLAUCOMA, otherwise
\* "Sospechoso" when a present eye is SUSPECT, otherwise "Sano"; it follows
\* the slots as set_eye_data changes them.
C5_PatientDiagnosis ==
    call[1] = "get_patient_diagnosis" =>
        LET ds == PresentDiagnoses(patient) IN
        /\ (ret = "Sin datos") <=> (ds = {})
        /\ (ret = "Glaucoma") <=> ("GLAUCOMA" \in ds)
        /\ (ret = "Sospechoso") <=> ("SUSPECT" \in ds /\ "GLAUCOMA" \notin ds)
        /\ (ret = "Sano") <=> (ds = {"HEALTHY"})
        /\ ret \in {"Sin datos", "Glaucoma", "Sospechoso", "Sano"}

\* C5 witness: a patient with a HEALTHY right eye and a GLAUCOMA left eye is
\* "Glaucoma"
C5_Witness ==
    /\ call[1] = "get_patient_diagnosis"
    /\ DiagnosisOf(patient.right_eye) = Some("HEALTHY")
    /\ DiagnosisOf(patient.left_eye) = Some("GLAUCOMA")
    /\ C2_EyeSlotsTyped
    /\ ret = "Glaucoma"

\* ------------------------------------------------------------ EyeData ops
\* a variant that stores the path before it checks it
add_fundus_image_unchecked(e, image_path, exists) ==
    [e EXCEPT !.fundus_image = Some(image_path)]

\* the EyeData add_fundus_image leaves; exists is the set of paths for which
\* os.path.exists holds
add_fundus_image(e, image_path, exists) ==
    IF image_path \in exists
    THEN [e EXCEPT !.fundus_image = Some(image_path)]
    ELSE e

\* the exception add_fundus_image raises, if any
add_fundus_image_exc(image_path, exists) ==
    IF image_path \in exists THEN None ELSE Some("FileNotFoundError")

\* c <= m for the integer literal c of the code and the fixed-point m
LitLeq(c, m) == c * MDScale <= m
\* m < c
LessLit(m, c) == m < c * MDScale

\* a variant whose Mild band excludes its lower end
get_glaucoma_severity_open(e) ==
    IF e.mean_defect = None \/ e.diagnosis # "GLAUCOMA" THEN None
    ELSE LET m == e.mean_defect[1] IN
         IF ~LitLeq(0 - 6, m) /\ LessLit(m, 0 - 3) THEN Some("Glaucoma Leve")
         ELSE IF LitLeq(0 - 12, m) /\ LessLit(m, 0 - 6)
         THEN Some("Glaucoma Moderado")
         ELSE IF LessLit(m, 0 - 12) THEN Some("Glaucoma Severo")
         ELSE Some("No clasificable")

get_glaucoma_severity(e) ==
    IF e.mean_defect = None \/ e.diagnosis # "GLAUCOMA" THEN None
    ELSE LET m == e.mean_defect[1] IN
         IF LitLeq(0 - 6, m) /\ LessLit(m, 0 - 3) THEN Some("Glaucoma Leve")
         ELSE IF LitLeq(0 - 12, m) /\ LessLit(m, 0 - 6)
         THEN Some("Glaucoma Moderado")
         ELSE IF LessLit(m, 0 - 12) THEN Some("Glaucoma Severo")
         ELSE Some("No clasificable")

\* ------------------------------------------------- EyeData specification
\* EyeData(...) with any eye_type, diagnosis and mean_defect, on any file
\* system
InitEye ==
    /\ eye \in {EyeData(t, d, m) :
                   t \in Eye, d \in DiagnosisStatus,
                   m \in {None} \cup {Some(x) : x \in MeanDefects}}
    /\ fs \in SUBSET Paths
    /\ patients = << >>
    /\ patient = None
    /\ kwargs = << >>
    /\ call = <<"__init__">>
    /\ ret = None
    /\ exc = None
    /\ size_before = 0

AddFundusImage ==
    \E image_path \in Paths :
        /\ eye' = add_fundus_image(eye, image_path, fs)
        /\ call' = <<"add_fundus_image", image_path>>
        /\ ret' = None
        /\ exc' = add_fundus_image_exc(image_path, fs)
        /\ UNCHANGED <<patients, patient, fs, kwargs, size_before>>

GetGlaucomaSeverity ==
    /\ call' = <<"get_glaucoma_severity">>
    /\ ret' = get_glaucoma_severity(eye)
    /\ exc' = None
    /\ UNCHANGED <<patients, patient, eye, fs, kwargs, size_before>>

\* the environment creates or deletes a file between two calls
FileSystemChange ==
    \E image_path \in Paths :
        /\ fs' = IF image_path \in fs THEN fs \ {image_path}
                 ELSE fs \cup {image_path}
        /\ UNCHANGED <<patients, patient, eye, kwargs, call, ret, exc,
                       size_before>>

NextEye == AddFundusImage \/ GetGlaucomaSeverity \/ FileSystemChange

SpecEye == InitEye /\ [][NextEye]_vars

\* -------------------------------------------------------- EyeData claims
\* the mean_defect range of a band, in fixed-point units: lo <= m < hi
InBand(m, lo, hi) == lo * MDScale <= m /\ m < hi * MDScale

\* C6: get_glaucoma_severity returns None when mean_defect is unset or the
\* diagnosis is not GLAUCOMA; otherwise Mild for -6 <= m < -3, Moderate for
\* -12 <= m < -6, Severe for m < -12 and Unclassifiable for m >= -3, so -6
\* is Mild, -12 is Moderate and every value gets exactly one label.
C6_GlaucomaSeverity ==
    call[1] = "get_glaucoma_severity" =>
        IF eye.mean_defect = None \/ eye.diagnosis # "GLAUCOMA"
        THEN ret = None
        ELSE LET m == eye.mean_defect[1] IN
             /\ ret # None
             /\ (ret[1] = "Glaucoma Leve") <=> InBand(m, 0 - 6, 0 - 3)
             /\ (ret[1] = "Glaucoma Moderado") <=> InBand(m, 0 - 12, 0 - 6)
             /\ (ret[1] = "Glaucoma Severo") <=> (m < (0 - 12) * MDScale)
             /\ (ret[1] = "No clasificable") <=> (m >= (0 - 3) * MDScale)
             /\ ret[1] \in {"Glaucoma Leve", "Glaucoma Moderado",
                            "Glaucoma Severo", "No clasificable"}

\* C6 witness: a GLAUCOMA eye with mean_defect exactly -6 is Mild
C6_Witness ==
    /\ call[1] = "get_glaucoma_severity"
    /\ eye.diagnosis = "GLAUCOMA"
    /\ eye.mean_defect = Some((0 - 6) * MDScale)
    /\ ret = Some("Glaucoma Leve")

\* C9: add_fundus_image(path) stores path only when the path exists;
\* otherwise it raises FileNotFoundError and fundus_image keeps its prior
\* value; so fundus_image only ever changes to a path that existed when it
\* was set.  (A step that leaves fs alone and ends with call naming
\* add_fundus_image is a call of it; the other steps change fs.)
C9_AddFundusImage ==
    [][/\ (call'[1] = "add_fundus_image" /\ fs' = fs) =>
            LET image_path == call'[2] IN
            IF image_path \in fs
            THEN eye'.fundus_image = Some(image_path) /\ exc' = None
            ELSE /\ exc' = Some("FileNotFoundError")
                 /\ eye'.fundus_image = eye.fundus_image
       /\ eye'.fundus_image # eye.fundus_image =>
            (eye'.fundus_image # None /\ eye'.fundus_image[1] \in fs)
      ]_vars

\* C9 witness: attaching a missing path failed and the path attached before
\* is still there
C9_Witness ==
    /\ call[1] = "add_fundus_image"
    /\ exc = Some("FileNotFoundError")
    /\ eye.fundus_image # None
    /\ eye.fundus_image[1] # call[2]

\* ------------------------------------------------------- filter_patients
\* a variant whose age_min bound is exclusive
FilterStepStrict(filtered_patients, key, value) ==
    IF key = "age_min"
    THEN SelectSeq(filtered_patients, LAMBDA p : p.age > value)
    ELSE IF key = "age_max"
    THEN SelectSeq(filtered_patients, LAMBDA p : p.age <= value)
    ELSE IF key = "gender"
    THEN SelectSeq(filtered_patients, LAMBDA p : p.gender = value)
    ELSE IF key = "diagnosis"
    THEN SelectSeq(filtered_patients,
             LAMBDA p : \/ (p.right_eye # None /\ p.right_eye[1].diagnosis = value)
                        \/ (p.left_eye # None /\ p.left_eye[1].diagnosis = value))
    ELSE filtered_patients

\* one pass of the loop over kwargs.items()
FilterStep(filtered_patients, key, value) ==
    IF key = "age_min"
    THEN SelectSeq(filtered_patients, LAMBDA p : p.age >= value)
    ELSE IF key = "age_max"
    THEN SelectSeq(filtered_patients, LAMBDA p : p.age <= value)
    ELSE IF key = "gender"
    THEN SelectSeq(filtered_patients, LAMBDA p : p.gender = value)
    ELSE IF key = "diagnosis"
    THEN SelectSeq(filtered_patients,
             LAMBDA p : \/ (p.right_eye # None /\ p.right_eye[1].diagnosis = value)
                        \/ (p.left_eye # None /\ p.left_eye[1].diagnosis = value))
    ELSE filtered_patients

\* the loop over kwargs.items(), from item i on
RECURSIVE FilterLoop(_, _, _)
FilterLoop(filtered_patients, kw, i) ==
    IF i > Len(kw) THEN filtered_patients
    ELSE FilterLoop(FilterStep(filtered_patients, kw[i][1], kw[i][2]), kw, i + 1)

\* kw is the sequence of (key, value) items of **kwargs, in the order given
filter_patients(ps, kw) == FilterLoop(ps, kw, 1)

\* --------------------------------------------- filter_patients specification
\* the dicts add_patient and remove_patient can build: every sequence of
\* patients with pairwise distinct ids
Registries ==
    {ps \in UNION {[1..n -> PatientInputs] : n \in 0..Cardinality(PatientIds)} :
        \A i, j \in 1..Len(ps) : ps[i].patient_id = ps[j].patient_id => i = j}

\* one keyword argument: the four known keys and one the code does not know
KwargItems ==
    {<<"age_min", a>> : a \in Ages} \cup {<<"age_max", a>> : a \in Ages}
    \cup {<<"gender", g>> : g \in Gender}
    \cup {<<"diagnosis", d>> : d \in DiagnosisStatus}
    \cup {<<"eye", t>> : t \in {RIGHT}}

KeyRank(key) ==
    CASE key = "age_min" -> 1 [] key = "age_max" -> 2 [] key = "gender" -> 3
      [] key = "diagnosis" -> 4 [] OTHER -> 5

\* **kwargs: at most MaxKwargs items with pairwise distinct keys.  One order
\* is drawn for each set of items; C7's formula applies filter_patients to
\* every reordering of it.
KwargsInputs ==
    {kw \in UNION {[1..n -> KwargItems] : n \in 0..MaxKwargs} :
        \A i, j \in 1..Len(kw) : i < j => KeyRank(kw[i][1]) < KeyRank(kw[j][1])}

InitFilter ==
    /\ patients \in Registries
    /\ kwargs \in KwargsInputs
    /\ patient = None
    /\ eye = None
    /\ fs = {}
    /\ call = <<"__init__">>
    /\ ret = None
    /\ exc = None
    /\ size_before = Len(patients)

FilterPatients ==
    /\ call' = <<"filter_patients">>
    /\ ret' = filter_patients(patients, kwargs)
    /\ exc' = None
    /\ size_before' = Len(patients)
    /\ UNCHANGED <<patients, patient, eye, fs, kwargs>>

NextFilter == FilterPatients

SpecFilter == InitFilter /\ [][NextFilter]_vars

\* ------------------------------------------------ filter_patients claims
\* what one supplied predicate asks of a patient
Satisfies(p, key, value) ==
    /\ key = "age_min" => p.age >= value
    /\ key = "age_max" => p.age <= value
    /\ key = "gender" => p.gender = value
    /\ key = "diagnosis" => value \in PresentDiagnoses(p)

SatisfiesAll(p, kw) ==
    \A j \in 1..Len(kw) : Satisfies(p, kw[j][1], kw[j][2])

Reordered(kw, perm) == [j \in 1..Len(kw) |-> kw[perm[j]]]

\* C7: filter_patients returns, in the registry's iteration order, exactly
\* the registered patients that satisfy every supplied known predicate;
\* unknown keys are ignored without an error, no predicates give all the
\* patients, and the order of the predicates does not change the result.
C7_FilterPatients ==
    call[1] = "filter_patients" =>
        /\ exc = None
        /\ ret = SelectSeq(patients, LAMBDA p : SatisfiesAll(p, kwargs))
        /\ kwargs = << >> => ret = patients
        /\ \A perm \in Permutations(1..Len(kwargs)) :
               filter_patients(patients, Reordered(kwargs, perm)) = ret

\* every registry the add_patient / remove_patient specification reaches is
\* one the filter_patients specification starts from
RegistryIsDrawn == patients \in Registries

\* C7 witness: two predicates, one of them on an unknown key, keep the second
\* of two registered patients only
C7_Witness ==
    /\ call[1] = "filter_patients"
    /\ Len(kwargs) = 2
    /\ kwargs[1][1] = "age_min"
    /\ kwargs[2][1] = "eye"
    /\ Len(patients) = 2
    /\ ret = <<patients[2]>>

====
